---- MODULE Spec2Model ----
(***************************************************************************)
(* Stock-flow simulation of the Colombian Amazon forest.                   *)
(*                                                                         *)
(*   src/app.py                    simulate_v03, first_crossing_year       *)
(*   src/src/simulation_v0_3.py    simulate_v03 with module constants      *)
(*   src/src/simulation_v0_2.py    simulate_channelized                    *)
(*   src/src/simulation_v0_1.py    simulate, crossing_year                 *)
(*                                                                         *)
(* The Python code computes on floats.  Here every quantity is an exact    *)
(* rational number, and every arithmetic operation of simulate_v03 rounds  *)
(* its exact result to the nearest number with prec significant bits, ties *)
(* to even, as IEEE 754 does with 53 bits.  prec = 0 is the run without    *)
(* rounding: the real-number semantics of the code.                        *)
(***************************************************************************)
EXTENDS Integers, Sequences, FiniteSets, TLC

VARIABLES prog, prec, cfg, pc, years, intact, degraded, total, flows, forest, cross

vars == <<prog, prec, cfg, pc, years, intact, degraded, total, flows, forest, cross>>

(***************************************************************************)
(* Exact rational arithmetic.  A number is [w, n, d] with value w + n/d,   *)
(* 0 <= n < d and gcd(n, d) = 1 (an integer has n = 0, d = 1), so that     *)
(* equal values are equal records.  The integer part is kept apart from    *)
(* the fraction to keep 39,011,117-hectare stocks inside TLC's integers.   *)
(***************************************************************************)
\* Let(v, F) is F(v) with v evaluated once.
Let(v, F(_)) == CHOOSE r \in {F(x) : x \in {v}} : TRUE

Let2(u, v, F(_, _)) == CHOOSE r \in {F(x, y) : x \in {u}, y \in {v}} : TRUE

RECURSIVE GCD(_, _)
GCD(a, b) == IF b = 0 THEN a ELSE GCD(b, a % b)

Abs(k) == IF k < 0 THEN -k ELSE k

\* w + n/d in normal form, for any integers w, n and d > 0
Norm(w, n, d) ==
    Let2(n % d, d, LAMBDA r, dd :
      Let(GCD(dd, r), LAMBDA g :
        [w |-> w + (n \div dd), n |-> r \div g, d |-> dd \div g]))

R(k) == [w |-> k, n |-> 0, d |-> 1]

Frac(p, q) == Norm(0, p, q)

LCM(a, b) == (a \div GCD(a, b)) * b

Add(a, b) ==
    Let2(a, b, LAMBDA x, y :
      Let(LCM(x.d, y.d), LAMBDA L :
        Norm(x.w + y.w, x.n * (L \div x.d) + y.n * (L \div y.d), L)))

Sub(a, b) ==
    Let2(a, b, LAMBDA x, y :
      Let(LCM(x.d, y.d), LAMBDA L :
        Norm(x.w - y.w, x.n * (L \div x.d) - y.n * (L \div y.d), L)))

Leq(a, b) ==
    Let2(a, b, LAMBDA x, y :
      Let(LCM(x.d, y.d), LAMBDA L :
        \/ x.w < y.w
        \/ x.w = y.w /\ x.n * (L \div x.d) <= y.n * (L \div y.d)))

Lt(a, b) == Let2(a, b, LAMBDA x, y : Leq(x, y) /\ x # y)

\* k * x for an integer k >= 0, by doubling: no product of two large integers
RECURSIVE Times(_, _)
Times(k, x) ==
    IF k = 0 THEN R(0)
    ELSE Let(Times(k \div 2, x), LAMBDA h :
           IF k % 2 = 0 THEN Add(h, h) ELSE Add(Add(h, h), x))

\* k * (n/d) for an integer k and a proper fraction n/d
MulIF(k, n, d) ==
    IF k = 0 \/ n = 0 THEN R(0)
    ELSE Let(GCD(Abs(k), d), LAMBDA g :
           Let2(Abs(k) \div g, d \div g, LAMBDA kk, dd :
             Let(IF kk <= 2147483647 \div n THEN Norm(0, kk * n, dd)
                 ELSE Times(kk, Norm(0, n, dd)), LAMBDA p :
               IF k < 0 THEN Sub(R(0), p) ELSE p)))

\* (n1/d1) * (n2/d2) for two proper fractions
MulFF(n1, d1, n2, d2) ==
    IF n1 = 0 \/ n2 = 0 THEN R(0)
    ELSE Let2(GCD(n1, d2), GCD(n2, d1), LAMBDA g1, g2 :
           Norm(0, (n1 \div g1) * (n2 \div g2), (d1 \div g2) * (d2 \div g1)))

Mul(a, b) ==
    Let2(a, b, LAMBDA x, y :
      Add(Add(R(x.w * y.w), MulIF(x.w, y.n, y.d)),
          Add(MulIF(y.w, x.n, x.d), MulFF(x.n, x.d, y.n, y.d))))

\* 1/b for b > 0
Inv(b) == Let(b, LAMBDA y : Norm(0, y.d, y.w * y.d + y.n))

\* a / b for b > 0
Div(a, b) == Mul(a, Inv(b))

\* math.ceil
Ceil(a) == Let(a, LAMBDA x : IF x.n = 0 THEN x.w ELSE x.w + 1)

\* Python's min(a, b) and max(a, b) on numbers
Min(a, b) == Let2(a, b, LAMBDA x, y : IF Leq(x, y) THEN x ELSE y)

Max(a, b) == Let2(a, b, LAMBDA x, y : IF Leq(y, x) THEN x ELSE y)

Zero == R(0)

One == R(1)

(***************************************************************************)
(* Rounding of a float operation: the exact result goes to the nearest     *)
(* number m * 2^e with m below 2^p, ties to the even m.  There is no       *)
(* exponent range: no value of a run is near the overflow or underflow of  *)
(* a double.                                                               *)
(***************************************************************************)
RECURSIVE Pow2(_)
Pow2(p) == IF p = 0 THEN 1 ELSE 2 * Pow2(p - 1)

\* the integer nearest to x >= 0, ties to even
RoundInt(x) ==
    Let(x, LAMBDA v :
      IF 2 * v.n < v.d THEN R(v.w)
      ELSE IF 2 * v.n > v.d THEN R(v.w + 1)
      ELSE IF v.w % 2 = 0 THEN R(v.w) ELSE R(v.w + 1))

\* x / 2 and 2 * x
Half(x) == Let(x, LAMBDA v : Norm(0, v.w * v.d + v.n, 2 * v.d))

Double(x) == Let(x, LAMBDA v : Norm(2 * v.w, 2 * v.n, v.d))

\* x > 0 rounded to the nearest m * 2^e with lo <= m <= 2 * lo
RECURSIVE RoundPos(_, _)
RoundPos(x, lo) ==
    Let(x, LAMBDA v :
      IF v.w >= 2 * lo THEN Double(RoundPos(Half(v), lo))
      ELSE IF v.w < lo THEN Half(RoundPos(Double(v), lo))
      ELSE RoundInt(v))

Round(x, p) ==
    Let(x, LAMBDA v :
      IF v = Zero THEN Zero
      ELSE IF Lt(v, Zero) THEN Sub(Zero, RoundPos(Sub(Zero, v), Pow2(p - 1)))
      ELSE RoundPos(v, Pow2(p - 1)))

\* The float that an operation with exact result x produces
Fl(x) == IF prec = 0 THEN x ELSE Round(x, prec)


(***************************************************************************)
(* Module constants of src/app.py and src/src/simulation_v0_3.py.          *)
(***************************************************************************)
F0_TOTAL == 39011117

START_YEAR_DEFAULT == 2000

HORIZON_DEFAULT == 200

ELNINO_YEARS == {2015, 2016, 2023, 2024}

\* THRESHOLDS: the fractions 0.80 and 0.75
THRESHOLDS == {Frac(4, 5), Frac(3, 4)}

D_BASE == 81240

POST_ACCORD_START == 2017

\* 0.30
POST_ACCORD_MULT == Frac(3, 10)

FIRE_BASE == 20000

\* 0.20
ELNINO_MULT == Frac(1, 5)

\* 0.01
RHO_RECOVERY == Frac(1, 100)

\* 0.20
W_DEGRADED_TARGET == Frac(1, 5)

(***************************************************************************)
(* simulate_v03: one iteration of the loop, local by local.                *)
(***************************************************************************)
\* years = [start_year + t for t in range(horizon + 1)]
YearList(start_year, horizon) ==
    [i \in 1..(horizon + 1) |-> start_year + (i - 1)]

\* F_tot = max(F_int + F_deg, 1.0)
FTot(F_int, F_deg) == Max(Fl(Add(F_int, F_deg)), One)

\* post_mult = post_accord_mult if (post_accord_on and y >= post_accord_start) else 0.0
PostMult(c, y) ==
    IF c.post_accord_on /\ y >= c.post_accord_start THEN c.post_accord_mult ELSE Zero

\* D_human = (D_base * enforcement_factor) * (1.0 + post_mult)
DHuman(c, y) ==
    Fl(Mul(Fl(Mul(c.D_base, c.enforcement_factor)), Fl(Add(One, PostMult(c, y)))))

\* convert_deg = min(F_deg, D_human * w_degraded_target)
ConvertDeg(F_deg, D_human, w) == Min(F_deg, Fl(Mul(D_human, w)))

\* ConvertInt without the cap at the intact stock
ConvertIntUncapped(F_int, remaining) == Max(remaining, Zero)

\* Remaining that forgets what the degraded stock absorbed
RemainingFull(D_human, convert_deg) == D_human

\* remaining = D_human - convert_deg
Remaining(D_human, convert_deg) == Fl(Sub(D_human, convert_deg))

\* convert_int = min(F_int, max(remaining, 0.0))
ConvertInt(F_int, remaining) == Min(F_int, Max(remaining, Zero))

\* deg_share = F_deg / F_tot
DegShare(F_deg, F_tot) == Fl(Div(F_deg, F_tot))

\* VulnFactor without the feedback term
VulnFactorFlat(alpha_vuln, deg_share) == One

\* vuln_factor = 1.0 + alpha_vuln * deg_share
VulnFactor(alpha_vuln, deg_share) == Fl(Add(One, Fl(Mul(alpha_vuln, deg_share))))

\* eln = elnino_mult if (elnino_on and y in ELNINO_YEARS) else 0.0
Eln(c, y) ==
    IF c.elnino_on /\ y \in ELNINO_YEARS THEN c.elnino_mult ELSE Zero

\* fire_pressure = (fire_base * climate_stress) * vuln_factor * (1.0 + eln)
FirePressure(c, vuln_factor, eln) ==
    Fl(Mul(Fl(Mul(Fl(Mul(c.fire_base, c.climate_stress)), vuln_factor)),
           Fl(Add(One, eln))))

\* Degrade capped by the whole intact stock, not by what conversion left
DegradeFromFullStock(F_int, convert_int, fire_pressure) ==
    Max(Min(F_int, Max(fire_pressure, Zero)), Zero)

\* degrade = min(F_int - convert_int, max(fire_pressure, 0.0)); degrade = max(degrade, 0.0)
Degrade(F_int, convert_int, fire_pressure) ==
    Max(Min(Fl(Sub(F_int, convert_int)), Max(fire_pressure, Zero)), Zero)

\* Recover without the rate: all the degraded area left after conversion
RecoverAll(F_deg, convert_deg, rho_recovery) ==
    Max(Sub(F_deg, convert_deg), Zero)

\* recover = min(F_deg - convert_deg, rho_recovery * F_deg); recover = max(recover, 0.0)
Recover(F_deg, convert_deg, rho_recovery) ==
    Max(Min(Fl(Sub(F_deg, convert_deg)), Fl(Mul(rho_recovery, F_deg))), Zero)

\* next_int = F_int - convert_int - degrade + recover
NextInt(F_int, convert_int, degrade, recover) ==
    Fl(Add(Fl(Sub(Fl(Sub(F_int, convert_int)), degrade)), recover))

\* next_deg = F_deg - convert_deg + degrade - recover
NextDeg(F_deg, convert_deg, degrade, recover) ==
    Fl(Sub(Fl(Add(Fl(Sub(F_deg, convert_deg)), degrade)), recover))

\* intact.append(max(next_int, 0.0)) and degraded.append(max(next_deg, 0.0))
Clamp0(x) == Max(x, Zero)

\* StepV03 with no cap on any flow and no clamp on the appended values: the
\* demands are withdrawn whether or not the stock holds them
StepV03Uncapped(c, y, F_int, F_deg) ==
    Let(FTot(F_int, F_deg), LAMBDA F_tot :
    Let(DHuman(c, y), LAMBDA D_human :
    Let(Mul(D_human, c.w_degraded_target), LAMBDA convert_deg :
    Let(Remaining(D_human, convert_deg), LAMBDA convert_int :
    Let(VulnFactor(c.alpha_vuln, DegShare(F_deg, F_tot)), LAMBDA vuln_factor :
    Let(FirePressure(c, vuln_factor, Eln(c, y)), LAMBDA fire_pressure :
    Let(Mul(c.rho_recovery, F_deg), LAMBDA recover :
    Let(NextInt(F_int, convert_int, fire_pressure, recover), LAMBDA next_int :
    Let(Sub(Add(Sub(F_deg, convert_deg), fire_pressure), recover), LAMBDA next_deg :
        [y |-> y, F_int |-> F_int, F_deg |-> F_deg,
         D_human |-> D_human, convert_deg |-> convert_deg,
         convert_int |-> convert_int, vuln_factor |-> vuln_factor,
         fire_pressure |-> fire_pressure, degrade |-> fire_pressure,
         recover |-> recover,
         intact |-> next_int, degraded |-> next_deg,
         total |-> Add(next_int, next_deg)])))))))))

\* The body of "for t in range(horizon)" for year y and stocks F_int, F_deg:
\* every local of the iteration, in the order the code assigns them, and the
\* three values appended.
StepV03(c, y, F_int, F_deg) ==
    Let(FTot(F_int, F_deg), LAMBDA F_tot :
    Let(DHuman(c, y), LAMBDA D_human :
    Let(ConvertDeg(F_deg, D_human, c.w_degraded_target), LAMBDA convert_deg :
    Let(Remaining(D_human, convert_deg), LAMBDA remaining :
    Let(ConvertInt(F_int, remaining), LAMBDA convert_int :
    Let(DegShare(F_deg, F_tot), LAMBDA deg_share :
    Let(VulnFactor(c.alpha_vuln, deg_share), LAMBDA vuln_factor :
    Let(Eln(c, y), LAMBDA eln :
    Let(FirePressure(c, vuln_factor, eln), LAMBDA fire_pressure :
    Let(Degrade(F_int, convert_int, fire_pressure), LAMBDA degrade :
    Let(Recover(F_deg, convert_deg, c.rho_recovery), LAMBDA recover :
    Let(NextInt(F_int, convert_int, degrade, recover), LAMBDA next_int :
    Let(NextDeg(F_deg, convert_deg, degrade, recover), LAMBDA next_deg :
        [y |-> y, F_int |-> F_int, F_deg |-> F_deg,
         D_human |-> D_human, convert_deg |-> convert_deg,
         convert_int |-> convert_int, vuln_factor |-> vuln_factor,
         fire_pressure |-> fire_pressure, degrade |-> degrade,
         recover |-> recover,
         intact |-> Clamp0(next_int), degraded |-> Clamp0(next_deg),
         total |-> Clamp0(Fl(Add(next_int, next_deg)))])))))))))))))

\* simulate_v03 as a function of its arguments: the total series it returns
RECURSIVE TotalFrom(_, _, _, _, _)
TotalFrom(c, t, F_int, F_deg, acc) ==
    IF t >= c.horizon THEN acc
    ELSE Let(StepV03(c, c.start_year + t, F_int, F_deg), LAMBDA s :
           TotalFrom(c, t + 1, s.intact, s.degraded, Append(acc, s.total)))

simulate_v03_total(c) ==
    TotalFrom(c, 0, c.F0_intact, c.F0_degraded, <<Add(c.F0_intact, c.F0_degraded)>>)

(***************************************************************************)
(* first_crossing_year: Optional[int] is <<>> for None and <<y>> for y.    *)
(***************************************************************************)
None == <<>>

Some(y) == <<y>>

\* ScanFrom that keeps scanning and returns the last match
RECURSIVE ScanFromLast(_, _, _, _)
ScanFromLast(ys, series, threshold_value, i) ==
    IF i > Len(ys) \/ i > Len(series) THEN None
    ELSE Let(ScanFromLast(ys, series, threshold_value, i + 1), LAMBDA later :
           IF later # None THEN later
           ELSE IF Leq(series[i], threshold_value) THEN Some(ys[i]) ELSE None)

\* ScanFrom with the strict comparison v < threshold_value
RECURSIVE ScanFromStrict(_, _, _, _)
ScanFromStrict(ys, series, threshold_value, i) ==
    IF i > Len(ys) \/ i > Len(series) THEN None
    ELSE IF Lt(series[i], threshold_value) THEN Some(ys[i])
    ELSE ScanFromStrict(ys, series, threshold_value, i + 1)

\* for y, v in zip(years, series): if v <= threshold_value: return y
RECURSIVE ScanFrom(_, _, _, _)
ScanFrom(ys, series, threshold_value, i) ==
    IF i > Len(ys) \/ i > Len(series) THEN None
    ELSE IF Leq(series[i], threshold_value) THEN Some(ys[i])
    ELSE ScanFrom(ys, series, threshold_value, i + 1)

first_crossing_year(ys, series, threshold_value) ==
    ScanFrom(ys, series, threshold_value, 1)

(***************************************************************************)
(* src/src/simulation_v0_1.py: simulate and crossing_year.                 *)
(***************************************************************************)
\* StepV01 without the floor at zero
StepV01NoFloor(s, F) == Sub(F, s.D)

\* next_F = forest[-1] - s.D; forest.append(max(next_F, 0.0))
StepV01(s, F) == Max(Sub(F, s.D), Zero)

\* crossing_year that truncates the quotient instead of rounding it up
crossing_year_floor(start_year, F0, D, frac_remaining) ==
    Let(Mul(frac_remaining, F0), LAMBDA threshold :
    Let(Div(Sub(F0, threshold), D), LAMBDA q :
        start_year + (IF q.w >= 0 THEN q.w ELSE 0)))

\* threshold = frac_remaining * F0; t = math.ceil((F0 - threshold) / D);
\* return start_year + max(t, 0).  D is not 0 (a ZeroDivisionError otherwise).
crossing_year(start_year, F0, D, frac_remaining) ==
    Let(Mul(frac_remaining, F0), LAMBDA threshold :
    Let(IF Lt(Zero, D) THEN Div(Sub(F0, threshold), D)
        ELSE Sub(Zero, Div(Sub(F0, threshold), Sub(Zero, D))), LAMBDA q :
    Let(Ceil(q), LAMBDA t :
        start_year + (IF t >= 0 THEN t ELSE 0))))

(***************************************************************************)
(* src/src/simulation_v0_2.py: simulate_channelized and its constants.     *)
(***************************************************************************)
\* 0.30
POST_ACCORD_MULT_HUMAN == Frac(3, 10)

FIRE_YEARS == {2019, 2024}

FIRE_EXTRA_HA == 15000

\* 0.20
ELNINO_MULT_FIRE == Frac(1, 5)

\* m_post and D_human = D_base_human * (1.0 + m_post)
DHumanV02(c, y) ==
    LET m_post == IF c.post_accord_on /\ y >= POST_ACCORD_START
                  THEN POST_ACCORD_MULT_HUMAN ELSE Zero
    IN  Mul(c.D_base_human, Add(One, m_post))

\* D_fire_base, m_eln_fire and D_fire = D_fire_base * (1.0 + m_eln_fire)
DFireV02(c, y) ==
    LET D_fire_base == IF c.fires_on /\ y \in FIRE_YEARS THEN R(FIRE_EXTRA_HA) ELSE Zero
        m_eln_fire  == IF c.elnino_on /\ y \in ELNINO_YEARS THEN ELNINO_MULT_FIRE ELSE Zero
    IN  Mul(D_fire_base, Add(One, m_eln_fire))

\* D_total = D_human + D_fire; next_F = forest[-1] - D_total;
\* forest.append(max(next_F, 0.0))
StepV02(c, y, F) ==
    Let2(DHumanV02(c, y), DFireV02(c, y), LAMBDA D_human, D_fire :
    Let(Add(D_human, D_fire), LAMBDA D_total :
        [y |-> y, D_human |-> D_human, D_fire |-> D_fire,
         forest |-> Max(Sub(F, D_total), Zero)]))

(***************************************************************************)
(* Bounds of the model and the configurations explored.                    *)
(***************************************************************************)
MaxHorizon == 3

\* Significant bits of the rounded runs (a double has 53)
Precision == 3

Horizons == {-1, 0, 1, MaxHorizon}

\* Arguments of simulate_v03 (src/app.py): small stocks and rates, with the
\* regime shift and the El Nino years inside the run.  recovery 3/2 and
\* targeting weight 2 are outside their documented ranges, as is horizon -1.
SmallConfigs ==
    [start_year : {2014}, horizon : Horizons,
     F0_intact : {R(0), R(2), R(5)}, F0_degraded : {R(0), R(3)},
     D_base : {R(0), R(2)}, enforcement_factor : {Frac(1, 2), One},
     post_accord_on : BOOLEAN, post_accord_start : {2015},
     post_accord_mult : {Frac(1, 2)},
     fire_base : {R(0), R(1)}, climate_stress : {One},
     alpha_vuln : {R(0), R(2)},
     elnino_on : BOOLEAN, elnino_mult : {Frac(1, 2)},
     rho_recovery : {R(0), Frac(1, 2), Frac(3, 2)},
     w_degraded_target : {R(0), Frac(1, 2), One, R(2)}]

\* The dashboard's defaults (src/app.py, the sidebar widgets)
AppDefaults ==
    [start_year |-> START_YEAR_DEFAULT, horizon |-> HORIZON_DEFAULT,
     F0_intact |-> R(F0_TOTAL), F0_degraded |-> R(0),
     D_base |-> R(81240), enforcement_factor |-> One,
     post_accord_on |-> TRUE, post_accord_start |-> 2017,
     post_accord_mult |-> Frac(3, 10),
     fire_base |-> R(20000), climate_stress |-> One,
     alpha_vuln |-> R(2),
     elnino_on |-> TRUE, elnino_mult |-> Frac(1, 5),
     rho_recovery |-> Frac(1, 100),
     w_degraded_target |-> Frac(1, 5)]

\* Constant human pressure alone: no regime shift, no fire, no recovery
BaselineScenario ==
    [AppDefaults EXCEPT !.post_accord_on = FALSE, !.fire_base = R(0),
                        !.rho_recovery = R(0)]

\* Fire alone: no human pressure, no regime shift, no El Nino years.  The
\* run is two steps long: beyond that the exact fractions leave TLC's integers.
FireScenario ==
    [AppDefaults EXCEPT !.horizon = 2, !.D_base = R(0),
                        !.post_accord_on = FALSE, !.elnino_on = FALSE]

\* simulate_v03 of src/src/simulation_v0_3.py: the same loop with the module
\* constants for the arguments it does not take; El Nino is always on.
ScriptConfig(start_year, horizon, post_accord_on, climate_stress, enforcement_factor, alpha_vuln) ==
    [start_year |-> start_year, horizon |-> horizon,
     F0_intact |-> R(F0_TOTAL), F0_degraded |-> R(0),
     D_base |-> R(D_BASE), enforcement_factor |-> enforcement_factor,
     post_accord_on |-> post_accord_on, post_accord_start |-> POST_ACCORD_START,
     post_accord_mult |-> POST_ACCORD_MULT,
     fire_base |-> R(FIRE_BASE), climate_stress |-> climate_stress,
     alpha_vuln |-> alpha_vuln,
     elnino_on |-> TRUE, elnino_mult |-> ELNINO_MULT,
     rho_recovery |-> RHO_RECOVERY,
     w_degraded_target |-> W_DEGRADED_TARGET]

\* main()'s three scenarios, two steps each, from 2000 and from 2016
ScriptConfigs ==
    {ScriptConfig(s, 2, TRUE, x[1], x[2], x[3]) :
        s \in {START_YEAR_DEFAULT, 2016},
        x \in {<<One, One, R(2)>>, <<One, Frac(7, 10), R(2)>>,
               <<Frac(17, 10), One, R(4)>>}}

V03Configs == SmallConfigs \cup {BaselineScenario, FireScenario} \cup ScriptConfigs

\* Arguments of simulate_v03 for the rounded runs: valid configurations whose
\* values are floats of Precision bits, and whose sums and differences are not
RoundedConfigs ==
    [start_year : {2014}, horizon : {MaxHorizon},
     F0_intact : {Frac(3, 2), Frac(7, 4), R(5)},
     F0_degraded : {Frac(1, 2), Frac(7, 4), R(3)},
     D_base : {R(0), Frac(3, 4), R(2)}, enforcement_factor : {One},
     post_accord_on : {FALSE}, post_accord_start : {2015},
     post_accord_mult : {Frac(1, 2)},
     fire_base : {R(0), R(1), R(4)}, climate_stress : {One},
     alpha_vuln : {R(0), R(2)},
     elnino_on : BOOLEAN, elnino_mult : {Frac(1, 2)},
     rho_recovery : {R(0), Frac(1, 2)},
     w_degraded_target : {R(0), Frac(1, 2), One}]

\* Scenario objects of simulation_v0_1.py: small ones and main()'s two
V01Configs ==
    [start_year : {2025}, F0 : {R(0), R(5), R(7)},
     D : {R(0), R(2), Frac(5, 2)}, years : Horizons]
    \cup [start_year : {2025}, F0 : {R(F0_TOTAL)},
          D : {R(81240), R(141161)}, years : {150}]

\* Arguments of simulate_channelized: runs around the regime shift (2017), the
\* fire years (2019, 2024) and the El Nino years, and main()'s four scenarios
V02Configs ==
    [start_year : {2016, 2018, 2022}, years_horizon : Horizons,
     F0 : {R(0), R(150000)}, D_base_human : {R(0), R(15000)},
     post_accord_on : BOOLEAN, fires_on : BOOLEAN, elnino_on : BOOLEAN]
    \cup {[start_year |-> 2000, years_horizon |-> 200,
           F0 |-> R(F0_TOTAL), D_base_human |-> R(81240),
           post_accord_on |-> x[1], fires_on |-> x[2], elnino_on |-> x[3]] :
             x \in {<<FALSE, FALSE, FALSE>>, <<TRUE, FALSE, FALSE>>,
                    <<TRUE, TRUE, FALSE>>, <<TRUE, TRUE, TRUE>>}}

\* Direct calls of first_crossing_year: any series over a few values, not
\* necessarily monotonic, zipped with a year list that may be shorter
MaxSeries == 4

ScanValues == {R(0), R(1), Frac(3, 2), R(2)}

ScanInputs ==
    UNION {[years : {YearList(2000, k - 1) : k \in 0..len},
            series : [1..len -> ScanValues],
            threshold_value : {R(1), Frac(3, 2)}] : len \in 0..MaxSeries}

\* threshold fractions handed to first_crossing_year: THRESHOLDS and 1.0
Fractions == THRESHOLDS \cup {One}

(***************************************************************************)
(* The state machine.                                                      *)
(***************************************************************************)
InitV03 ==
    /\ prog = "simulate_v03"
    /\ \/ cfg \in V03Configs /\ prec = 0
       \/ cfg \in RoundedConfigs /\ prec = Precision
    /\ pc = "loop"
    /\ years = YearList(cfg.start_year, cfg.horizon)
    /\ intact = <<cfg.F0_intact>>
    /\ degraded = <<cfg.F0_degraded>>
    /\ total = <<Fl(Add(cfg.F0_intact, cfg.F0_degraded))>>
    /\ flows = <<>>
    /\ forest = <<>>
    /\ cross = None

InitV01 ==
    /\ prog = "simulate"
    /\ prec = 0
    /\ cfg \in V01Configs
    /\ pc = "loop"
    /\ years = YearList(cfg.start_year, cfg.years)
    /\ forest = <<cfg.F0>>
    /\ intact = <<>> /\ degraded = <<>> /\ total = <<>> /\ flows = <<>>
    /\ cross = None

InitV02 ==
    /\ prog = "simulate_channelized"
    /\ prec = 0
    /\ cfg \in V02Configs
    /\ pc = "loop"
    /\ years = YearList(cfg.start_year, cfg.years_horizon)
    /\ forest = <<cfg.F0>>
    /\ intact = <<>> /\ degraded = <<>> /\ total = <<>> /\ flows = <<>>
    /\ cross = None

InitScan ==
    /\ prog = "first_crossing_year"
    /\ prec = 0
    /\ cfg \in ScanInputs
    /\ pc = "call"
    /\ years = cfg.years
    /\ forest = <<>>
    /\ intact = <<>> /\ degraded = <<>> /\ total = <<>> /\ flows = <<>>
    /\ cross = None

Init == InitV03 \/ InitV01 \/ InitV02 \/ InitScan

\* one iteration of "for t in range(horizon)"
V03Step ==
    /\ prog = "simulate_v03" /\ pc = "loop"
    /\ Len(flows) < cfg.horizon
    /\ LET t == Len(flows)
           s == StepV03(cfg, years[t + 1], intact[Len(intact)], degraded[Len(degraded)])
       IN  /\ intact' = Append(intact, s.intact)
           /\ degraded' = Append(degraded, s.degraded)
           /\ total' = Append(total, s.total)
           /\ flows' = Append(flows, s)
    /\ UNCHANGED <<prog, prec, cfg, pc, years, forest, cross>>

\* return years, intact, degraded, total
V03Return ==
    /\ prog = "simulate_v03" /\ pc = "loop"
    /\ Len(flows) >= cfg.horizon
    /\ pc' = "returned"
    /\ UNCHANGED <<prog, prec, cfg, years, intact, degraded, total, flows, forest, cross>>

\* thr = first_crossing_year(years, total, frac * f0_total), where f0_total is
\* the initial total area (the dashboard's stocks are integers, whose float sum
\* is f0_total itself)
V03Threshold ==
    /\ prog = "simulate_v03" /\ pc = "returned"
    /\ \E frac \in Fractions :
         LET threshold_value == Mul(frac, total[1])
         IN  cross' = [frac |-> frac, threshold_value |-> threshold_value,
                       year |-> first_crossing_year(years, total, threshold_value)]
    /\ pc' = "done"
    /\ UNCHANGED <<prog, prec, cfg, years, intact, degraded, total, flows, forest>>

\* simulate: one iteration of "for _ in range(s.years)"
V01Step ==
    /\ prog = "simulate" /\ pc = "loop"
    /\ Len(forest) - 1 < cfg.years
    /\ forest' = Append(forest, StepV01(cfg, forest[Len(forest)]))
    /\ UNCHANGED <<prog, prec, cfg, pc, years, intact, degraded, total, flows, cross>>

\* return years, forest
V01Return ==
    /\ prog = "simulate" /\ pc = "loop"
    /\ Len(forest) - 1 >= cfg.years
    /\ pc' = "returned"
    /\ UNCHANGED <<prog, prec, cfg, years, intact, degraded, total, flows, forest, cross>>

\* main(): y = crossing_year(s.start_year, s.F0, s.D, frac)
V01Crossing ==
    /\ prog = "simulate" /\ pc = "returned"
    /\ cfg.D # Zero
    /\ \E frac \in Fractions :
         cross' = [frac |-> frac, threshold_value |-> Mul(frac, cfg.F0),
                   year |-> crossing_year(cfg.start_year, cfg.F0, cfg.D, frac)]
    /\ pc' = "done"
    /\ UNCHANGED <<prog, prec, cfg, years, intact, degraded, total, flows, forest>>

\* main(): crossing_year divides by D = 0 and raises ZeroDivisionError
V01CrossingRaises ==
    /\ prog = "simulate" /\ pc = "returned"
    /\ cfg.D = Zero
    /\ pc' = "ZeroDivisionError"
    /\ UNCHANGED <<prog, prec, cfg, years, intact, degraded, total, flows, forest, cross>>

\* simulate_channelized: one iteration of "for t in range(years_horizon)"
V02Step ==
    /\ prog = "simulate_channelized" /\ pc = "loop"
    /\ Len(flows) < cfg.years_horizon
    /\ LET s == StepV02(cfg, years[Len(flows) + 1], forest[Len(forest)])
       IN  /\ forest' = Append(forest, s.forest)
           /\ flows' = Append(flows, s)
    /\ UNCHANGED <<prog, prec, cfg, pc, years, intact, degraded, total, cross>>

\* return years, forest, D_human_series, D_fire_series
V02Return ==
    /\ prog = "simulate_channelized" /\ pc = "loop"
    /\ Len(flows) >= cfg.years_horizon
    /\ pc' = "returned"
    /\ UNCHANGED <<prog, prec, cfg, years, intact, degraded, total, flows, forest, cross>>

\* main(): y_cross = first_crossing_year(years, forest, frac * F0)
V02Threshold ==
    /\ prog = "simulate_channelized" /\ pc = "returned"
    /\ \E frac \in Fractions :
         LET threshold_value == Mul(frac, cfg.F0)
         IN  cross' = [frac |-> frac, threshold_value |-> threshold_value,
                       year |-> first_crossing_year(years, forest, threshold_value)]
    /\ pc' = "done"
    /\ UNCHANGED <<prog, prec, cfg, years, intact, degraded, total, flows, forest>>

\* a call of first_crossing_year on the drawn inputs
ScanCall ==
    /\ prog = "first_crossing_year" /\ pc = "call"
    /\ cross' = [year |-> first_crossing_year(cfg.years, cfg.series, cfg.threshold_value)]
    /\ pc' = "done"
    /\ UNCHANGED <<prog, prec, cfg, years, intact, degraded, total, flows, forest>>

Next ==
    \/ V03Step \/ V03Return \/ V03Threshold
    \/ V01Step \/ V01Return \/ V01Crossing \/ V01CrossingRaises
    \/ V02Step \/ V02Return \/ V02Threshold
    \/ ScanCall

Spec == Init /\ [][Next]_vars

(***************************************************************************)
(* Properties.                                                             *)
(***************************************************************************)
V03 == prog = "simulate_v03"

\* The documented ranges of the rates and the initial stocks
ValidRates(c) ==
    /\ Leq(Zero, c.F0_intact) /\ Leq(Zero, c.F0_degraded)
    /\ Leq(Zero, c.D_base) /\ Leq(Zero, c.enforcement_factor)
    /\ Leq(Zero, c.post_accord_mult) /\ Leq(Zero, c.elnino_mult)
    /\ Leq(Zero, c.fire_base) /\ Leq(Zero, c.climate_stress)
    /\ Leq(Zero, c.alpha_vuln)
    /\ Leq(Zero, c.w_degraded_target) /\ Leq(c.w_degraded_target, One)
    /\ Leq(Zero, c.rho_recovery) /\ Lt(c.rho_recovery, One)

ValidConfig(c) == c.horizon >= 0 /\ ValidRates(c)

\* C1 (non-negativity): in a simulate_v03 run on a valid configuration, every
\* entry of the intact and degraded series is >= 0.
C1_NonNegativity ==
    (V03 /\ ValidRates(cfg)) =>
        \A t \in 1..Len(intact) : Leq(Zero, intact[t]) /\ Leq(Zero, degraded[t])

\* A valid run that has ended with both stocks exhausted, after a step whose
\* human demand exceeded the whole remaining area
C1_Witness ==
    /\ V03 /\ ValidConfig(cfg) /\ pc = "returned" /\ Len(flows) >= 2
    /\ intact[Len(intact)] = Zero /\ degraded[Len(degraded)] = Zero
    /\ \E t \in 1..Len(flows) :
         /\ Lt(Zero, flows[t].F_int) /\ Lt(Zero, flows[t].F_deg)
         /\ Lt(Add(flows[t].F_int, flows[t].F_deg), flows[t].D_human)

\* C2 (conservation bound): in a simulate_v03 run with recovery_rate = 0 on an
\* otherwise valid configuration, total[t+1] <= total[t] at every step.  A
\* rounded run refutes it: total is the rounded sum of two rounded stocks, and
\* moving area from one stock to the other changes how the sum rounds.
C2_ConservationBound ==
    (V03 /\ ValidRates(cfg) /\ cfg.rho_recovery = Zero) =>
        \A t \in 1..(Len(total) - 1) : Leq(total[t + 1], total[t])

\* The states in which cross.year holds a result of first_crossing_year,
\* with the series that was scanned
Scanned ==
    /\ pc = "done"
    /\ prog \in {"first_crossing_year", "simulate_v03", "simulate_channelized"}

ScannedSeries ==
    IF prog = "first_crossing_year" THEN cfg.series
    ELSE IF prog = "simulate_v03" THEN total ELSE forest

ScannedThreshold ==
    IF prog = "first_crossing_year" THEN cfg.threshold_value ELSE cross.threshold_value

\* the positions of the (year, value) pairs whose value is <= the threshold
Hits ==
    {i \in 1..Len(years) : i <= Len(ScannedSeries)
                           /\ Leq(ScannedSeries[i], ScannedThreshold)}

\* C3: first_crossing_year returns the year of the earliest (year, value) pair
\* whose value is <= the threshold, whether or not the series is monotonic,
\* and returns None if and only if no pair has a value <= the threshold.
C3_FirstCrossing ==
    Scanned =>
        /\ cross.year = None <=> Hits = {}
        /\ Hits # {} =>
             \E i \in Hits : /\ \A j \in Hits : i <= j
                             /\ cross.year = Some(years[i])

\* A direct call on a series that rises again after its first crossing: above
\* the threshold, at or below it, above it, and at or below it once more
C3_Witness ==
    /\ Scanned /\ prog = "first_crossing_year"
    /\ Len(cfg.series) = 4 /\ Len(years) = 4
    /\ 1 \notin Hits /\ 2 \in Hits /\ 3 \notin Hits /\ 4 \in Hits
    /\ cross.year = Some(years[2])

StrictlyDecreasing(series) ==
    \A t \in 1..(Len(series) - 1) : Lt(series[t + 1], series[t])

\* a finished run scanned with threshold_fraction = 1.0 whose total series is
\* strictly decreasing over at least one step
FullThresholdCase ==
    /\ Scanned /\ prog \in {"simulate_v03", "simulate_channelized"}
    /\ cross.frac = One
    /\ Len(ScannedSeries) >= 2 /\ Len(years) = Len(ScannedSeries)
    /\ StrictlyDecreasing(ScannedSeries)

\* C4 as stated: with threshold_fraction = 1.0 on a strictly decreasing total
\* series, first_crossing returns step 1 (start_year + 1), not step 0.
C4_AsStated == FullThresholdCase => cross.year = Some(cfg.start_year + 1)

\* C4, amended: with threshold_fraction = 1.0 on a strictly decreasing total
\* series, first_crossing returns step 0 (start_year): total[0] equals the
\* threshold and the comparison is <=.
C4_FullThresholdIsStepZero == FullThresholdCase => cross.year = Some(cfg.start_year)

\* A simulate_v03 run of three steps that loses area in every step, scanned
\* with threshold_fraction = 1.0
C4_Witness ==
    /\ FullThresholdCase /\ V03 /\ ValidConfig(cfg) /\ Len(total) = 4
    /\ cross.year = Some(years[1])

\* C5 (conversion priority): in a step with degraded_targeting_weight = 1 and
\* degraded >= D_human, nothing is converted from intact land, and intact
\* changes by degradation and recovery alone.
C5_ConversionPriority ==
    V03 =>
        \A t \in 1..Len(flows) :
            (cfg.w_degraded_target = One /\ Leq(flows[t].D_human, flows[t].F_deg)) =>
                /\ flows[t].convert_int = Zero
                /\ intact[t + 1] =
                     Fl(Add(Fl(Sub(flows[t].F_int, flows[t].degrade)), flows[t].recover))

\* A step with weight 1, positive demand covered by the degraded stock, and
\* intact land that the demand could have been taken from
C5_Witness ==
    /\ V03 /\ ValidConfig(cfg) /\ cfg.w_degraded_target = One
    /\ \E t \in 1..Len(flows) :
         /\ Lt(Zero, flows[t].D_human) /\ Leq(flows[t].D_human, flows[t].F_deg)
         /\ Lt(Zero, flows[t].F_int)
         /\ flows[t].convert_deg = flows[t].D_human

\* C6 (zero-flow idempotence): with base_human_pressure = 0, fire_base_pressure
\* = 0 and recovery_rate = 0, every entry of the intact, degraded and total
\* series equals the initial one, whatever the other parameters are.
C6_ZeroFlow ==
    (V03 /\ cfg.D_base = Zero /\ cfg.fire_base = Zero /\ cfg.rho_recovery = Zero) =>
        \A t \in 1..Len(total) :
            /\ intact[t] = cfg.F0_intact
            /\ degraded[t] = cfg.F0_degraded
            /\ total[t] = Fl(Add(cfg.F0_intact, cfg.F0_degraded))

\* A three-step zero-flow run with both stocks present, the regime shift and
\* the El Nino years active, feedback on and a targeting weight of 2
C6_Witness ==
    /\ V03 /\ cfg.D_base = Zero /\ cfg.fire_base = Zero /\ cfg.rho_recovery = Zero
    /\ pc = "returned" /\ Len(total) = 4
    /\ Lt(Zero, cfg.F0_intact) /\ Lt(Zero, cfg.F0_degraded)
    /\ cfg.post_accord_on /\ cfg.elnino_on /\ Lt(Zero, cfg.alpha_vuln)
    /\ cfg.w_degraded_target = R(2)
    /\ \E t \in 1..Len(flows) : flows[t].y \in ELNINO_YEARS

\* a simulate_v03 run under constant human pressure alone: no regime shift,
\* no fire, no recovery, no degraded land, and a demand D > 0
ConstantPressure ==
    /\ V03 /\ ValidConfig(cfg)
    /\ ~cfg.post_accord_on /\ cfg.fire_base = Zero /\ cfg.rho_recovery = Zero
    /\ cfg.F0_degraded = Zero
    /\ Lt(Zero, DHuman(cfg, cfg.start_year))

FireAlone ==
    /\ V03 /\ ValidConfig(cfg)
    /\ cfg.D_base = Zero /\ cfg.F0_degraded = Zero /\ ~cfg.elnino_on
    /\ Lt(Zero, cfg.fire_base) /\ Lt(Zero, cfg.climate_stress)
    /\ Lt(Zero, cfg.alpha_vuln) /\ Lt(Zero, cfg.F0_intact)

\* C8 (reinforcing fire feedback): under fire alone from degraded = 0, the
\* first step has vulnerability factor 1 and fire pressure fire_base *
\* climate_stress, and the fire pressure of the second step is strictly
\* greater; in the concrete scenario (fire_base 20,000, alpha 2, recovery 0.01)
\* step 1 ends with degraded = 20,000 and intact = 38,991,117.
C8_FireFeedback ==
    FireAlone =>
        /\ Len(flows) >= 1 =>
             /\ flows[1].vuln_factor = One
             /\ flows[1].fire_pressure = Mul(cfg.fire_base, cfg.climate_stress)
             /\ cfg = FireScenario =>
                    /\ flows[1].fire_pressure = R(20000)
                    /\ degraded[2] = R(20000) /\ intact[2] = R(38991117)
        /\ Len(flows) >= 2 => Lt(flows[1].fire_pressure, flows[2].fire_pressure)

\* The concrete scenario after its second step: the degraded share is
\* 20,000 / 39,011,117 and the fire pressure has risen above 20,020
C8_Witness ==
    /\ FireAlone /\ cfg = FireScenario /\ Len(flows) = 2
    /\ flows[2].F_deg = R(20000)
    /\ flows[2].vuln_factor = Add(One, Frac(40000, 39011117))
    /\ Lt(R(20020), flows[2].fire_pressure)

\* The simulate_v03 configuration that reproduces a single-stock run: all the
\* area intact, the same demand, no fire, no recovery, nothing targeted at
\* degraded land
EmbedV01(s) ==
    [AppDefaults EXCEPT !.start_year = s.start_year, !.horizon = s.years,
                        !.F0_intact = s.F0, !.D_base = s.D,
                        !.post_accord_on = FALSE, !.fire_base = R(0),
                        !.rho_recovery = R(0), !.w_degraded_target = R(0)]

EmbedV02(c) ==
    [AppDefaults EXCEPT !.start_year = c.start_year, !.horizon = c.years_horizon,
                        !.F0_intact = c.F0, !.D_base = c.D_base_human,
                        !.post_accord_on = c.post_accord_on,
                        !.post_accord_start = POST_ACCORD_START,
                        !.post_accord_mult = POST_ACCORD_MULT_HUMAN,
                        !.fire_base = R(0),
                        !.rho_recovery = R(0), !.w_degraded_target = R(0)]

\* simulate_v03 configurations tried against a simpler run: both splits of
\* the area, the demand with and without the fire pulse, a regime shift at the
\* accord or at a fire year, fire, feedback, El Nino, recovery and targeting
\* on or off
Candidates(start_year, horizon, F0, D) ==
    {[start_year |-> start_year, horizon |-> horizon,
      F0_intact |-> split[1], F0_degraded |-> split[2],
      D_base |-> x.D_base, enforcement_factor |-> One,
      post_accord_on |-> x.post_accord_on,
      post_accord_start |-> x.post_accord_start,
      post_accord_mult |-> x.post_accord_mult,
      fire_base |-> x.fire_base, climate_stress |-> One,
      alpha_vuln |-> x.alpha_vuln,
      elnino_on |-> x.elnino_on, elnino_mult |-> ELNINO_MULT_FIRE,
      rho_recovery |-> x.rho_recovery,
      w_degraded_target |-> x.w_degraded_target] :
        split \in {<<F0, R(0)>>, <<R(0), F0>>},
        x \in [D_base : {D, Add(D, R(FIRE_EXTRA_HA))},
               post_accord_on : BOOLEAN,
               post_accord_start : {POST_ACCORD_START} \cup FIRE_YEARS,
               post_accord_mult : {POST_ACCORD_MULT_HUMAN, One},
               fire_base : {R(0), R(FIRE_EXTRA_HA)},
               alpha_vuln : {R(0), R(2)},
               elnino_on : BOOLEAN,
               rho_recovery : {R(0), Frac(1, 100)},
               w_degraded_target : {R(0), Frac(1, 5), One}]}

NoFireLoss == \A t \in 1..Len(flows) : flows[t].D_fire = Zero

C10_FailFast == (V03 /\ ~ValidConfig(cfg)) => Len(flows) = 0

C12_SeriesConsistency ==
    (V03 /\ ValidRates(cfg)) =>
        /\ \A t \in 1..Len(total) : total[t] = Fl(Add(intact[t], degraded[t]))
        /\ \A t \in 1..Len(flows) :
             LET f == flows[t]
             IN  /\ Leq(Zero, NextInt(f.F_int, f.convert_int, f.degrade, f.recover))
                 /\ Leq(Zero, NextDeg(f.F_deg, f.convert_deg, f.degrade, f.recover))

\* A finished rounded run on a valid configuration with a step in which all
\* four flows are positive and the sum of the two new stocks is not a float,
\* so that total is that sum rounded
C12_Witness ==
    /\ V03 /\ ValidConfig(cfg) /\ prec > 0 /\ pc = "returned"
    /\ \E t \in 1..Len(flows) :
         /\ Lt(Zero, flows[t].convert_deg) /\ Lt(Zero, flows[t].convert_int)
         /\ Lt(Zero, flows[t].degrade) /\ Lt(Zero, flows[t].recover)
         /\ Lt(Zero, intact[t + 1]) /\ Lt(Zero, degraded[t + 1])
         /\ total[t + 1] # Add(intact[t + 1], degraded[t + 1])

\* C13 (total never grows): in a simulate_v03 run on a valid configuration,
\* with any recovery rate, total[t+1] <= total[t] at every step.  A rounded
\* run with recovery and no conversion refutes it.
C13_TotalNonIncreasing ==
    (V03 /\ ValidRates(cfg)) =>
        \A t \in 1..(Len(total) - 1) : Leq(total[t + 1], total[t])

====
